---- MODULE Spec2Model ----
(***************************************************************************)
(* A model of the slog / idflog logging component (include/idflog.h).      *)
(*                                                                         *)
(* State: the slog_t instances (the global `slog` and the instances a      *)
(* program declares), the three static variables of the standalone         *)
(* functions, the time of day, and for every thread the log call it is in  *)
(* (its position in slog_send_logs / send_logs, its locals, and the calls  *)
(* it has made to the two sinks, in order).                                *)
(*                                                                         *)
(* Text is a sequence of one-character strings, so that formatting and     *)
(* truncation are computed as snprintf computes them.                      *)
(***************************************************************************)
EXTENDS Integers, Sequences, FiniteSets, TLC

VARIABLES inst, print_enabled, show_time_enabled, log_callback, tv, call,
          hist

vars ==
  <<inst, print_enabled, show_time_enabled, log_callback, tv, call, hist>>

(***************************************************************************)
(* Program constants                                                       *)
(***************************************************************************)
IDFLOG_DEBUG == 0
IDFLOG_INFO == 1
IDFLOG_ERROR == 2
IDFLOG_VERBOSE == 3
IDFLOG_WARNING == 4
IDFLOG_WTF == 5

\* char buffer[256] of the formatted entries, char msg[512] of slog_send_logs
sizeof_buffer == 256
sizeof_msg == 512

NULL == "NULL"

(***************************************************************************)
(* Bounds of the model                                                     *)
(***************************************************************************)
\* a message that fits the line buffer under a short prefix only
NearLineLen == 495
\* the longest message a caller passes
LongLen == 600
\* how far outside the enumeration a level argument may lie
LevelSlack == 1

Threads == {"t1", "t2"}
MainThread == {"t1"}

\* the callbacks a program registers (example_usage.c registers the first)
Callbacks == {"custom_log_callback", "other_callback"}
CallbackPtrs == Callbacks \cup {NULL}

\* the global instance, and a local one as in example_usage.c
GlobalInstance == "slog"
Instances == {"slog", "my_logger"}
Standalone == "standalone"

Levels == IDFLOG_DEBUG..IDFLOG_WTF
LevelArgs == (IDFLOG_DEBUG - LevelSlack)..(IDFLOG_WTF + LevelSlack)

Min(a, b) == IF a < b THEN a ELSE b

\* a message of n characters whose last character differs from the others
Text(n) == [i \in 1..n |-> IF i = n THEN "z" ELSE "m"]

MsgLens == {1, sizeof_buffer - 1, sizeof_buffer, NearLineLen, LongLen}
Messages == {Text(n) : n \in MsgLens}
ShortMessages == {Text(1)}

\* the values gettimeofday returns, in the order it can return them; the
\* last two lie on either side of 2^32 milliseconds
Timeline ==
  << [tv_sec |-> 0, tv_usec |-> 7999],
     [tv_sec |-> 1234, tv_usec |-> 567000],
     [tv_sec |-> 4294967, tv_usec |-> 295999],
     [tv_sec |-> 4294967, tv_usec |-> 296000] >>

(***************************************************************************)
(* Formatting                                                              *)
(***************************************************************************)
Digits == <<"0", "1", "2", "3", "4", "5", "6", "7", "8", "9">>

\* unsigned long has 32 bits on the ESP32; a value of the type is the pair
\* <<high half, low half>> of its two 16-bit halves
ULONG_BITS == 32
Half == 2 ^ (ULONG_BITS \div 2)

ULong(n) == <<(n \div Half) % Half, n % Half>>
ULongLE(a, b) == a[1] < b[1] \/ (a[1] = b[1] /\ a[2] <= b[2])
ULongDiv10(n) == <<n[1] \div 10, ((n[1] % 10) * Half + n[2]) \div 10>>
ULongMod10(n) == ((n[1] % 10) * Half + n[2]) % 10

RECURSIVE FormatLu(_)
\* printf's %lu conversion
FormatLu(n) ==
  IF n[1] = 0 /\ n[2] < 10 THEN <<Digits[n[2] + 1]>>
  ELSE FormatLu(ULongDiv10(n)) \o <<Digits[ULongMod10(n) + 1]>>

\* what snprintf(dst, size, ...) leaves in dst before the terminating NUL,
\* s being the full expansion of the format
snprintf(size, s) == SubSeq(s, 1, Min(Len(s), size - 1))

\* a faulty variant: vsprintf, which knows no size
vsnprintf_unbounded(size, s) == s

\* the same for vsnprintf
vsnprintf(size, s) == SubSeq(s, 1, Min(Len(s), size - 1))

\* tv_sec * 1000 + tv_usec / 1000 converted to unsigned long, that is taken
\* modulo 2^32; the sum is formed half by half
MillisOf(t) ==
  LET low == (t.tv_sec % Half) * 1000 + t.tv_usec \div 1000
  IN <<((t.tv_sec \div Half) * 1000 + low \div Half) % Half, low % Half>>

get_millis(t) == MillisOf(t)

get_timestamp_ms(t) == MillisOf(t)

\* a faulty variant: a shortened tag for warnings
slog_level_name_short(level) ==
  CASE level = IDFLOG_DEBUG -> <<"[", "D", "E", "B", "U", "G", "]">>
    [] level = IDFLOG_INFO -> <<"[", "I", "N", "F", "O", "]">>
    [] level = IDFLOG_ERROR -> <<"[", "E", "R", "R", "O", "R", "]">>
    [] level = IDFLOG_VERBOSE -> <<"[", "V", "E", "R", "B", "O", "S", "E", "]">>
    [] level = IDFLOG_WARNING -> <<"[", "W", "A", "R", "N", "]">>
    [] level = IDFLOG_WTF -> <<"[", "W", "T", "F", "]">>
    [] OTHER -> <<"[", "U", "N", "K", "N", "O", "W", "N", "]">>

slog_level_name(level) ==
  CASE level = IDFLOG_DEBUG -> <<"[", "D", "E", "B", "U", "G", "]">>
    [] level = IDFLOG_INFO -> <<"[", "I", "N", "F", "O", "]">>
    [] level = IDFLOG_ERROR -> <<"[", "E", "R", "R", "O", "R", "]">>
    [] level = IDFLOG_VERBOSE -> <<"[", "V", "E", "R", "B", "O", "S", "E", "]">>
    [] level = IDFLOG_WARNING -> <<"[", "W", "A", "R", "N", "I", "N", "G", "]">>
    [] level = IDFLOG_WTF -> <<"[", "W", "T", "F", "]">>
    [] OTHER -> <<"[", "U", "N", "K", "N", "O", "W", "N", "]">>

\* a faulty variant: no default branch, the last case catches the rest
get_level_name_no_default(level) ==
  CASE level = IDFLOG_DEBUG -> <<"D", "E", "B", "U", "G">>
    [] level = IDFLOG_INFO -> <<"I", "N", "F", "O">>
    [] level = IDFLOG_ERROR -> <<"E", "R", "R", "O", "R">>
    [] level = IDFLOG_VERBOSE -> <<"V", "E", "R", "B", "O", "S", "E">>
    [] level = IDFLOG_WARNING -> <<"W", "A", "R", "N", "I", "N", "G">>
    [] OTHER -> <<"W", "T", "F">>

get_level_name(level) ==
  CASE level = IDFLOG_DEBUG -> <<"D", "E", "B", "U", "G">>
    [] level = IDFLOG_INFO -> <<"I", "N", "F", "O">>
    [] level = IDFLOG_ERROR -> <<"E", "R", "R", "O", "R">>
    [] level = IDFLOG_VERBOSE -> <<"V", "E", "R", "B", "O", "S", "E">>
    [] level = IDFLOG_WARNING -> <<"W", "A", "R", "N", "I", "N", "G">>
    [] level = IDFLOG_WTF -> <<"W", "T", "F">>
    [] OTHER -> <<"U", "N", "K", "N", "O", "W", "N">>

\* a faulty variant: the format strings lack the line terminator
slog_render_unterminated(time_flag, time, level, message) ==
  IF time_flag
  THEN snprintf(sizeof_msg,
         FormatLu(time) \o <<" ">> \o slog_level_name(level) \o <<":", " ">>
           \o message)
  ELSE snprintf(sizeof_msg,
         slog_level_name(level) \o <<":", " ">> \o message)

\* the line slog_send_logs composes in msg[512]
slog_render(time_flag, time, level, message) ==
  IF time_flag
  THEN snprintf(sizeof_msg,
         FormatLu(time) \o <<" ">> \o slog_level_name(level) \o <<":", " ">>
           \o message \o <<"\n">>)
  ELSE snprintf(sizeof_msg,
         slog_level_name(level) \o <<":", " ">> \o message \o <<"\n">>)

\* the line send_logs hands to printf
send_logs_render(time_flag, timestamp, level, message) ==
  IF time_flag
  THEN <<"[">> \o FormatLu(timestamp) \o <<"]", " ", "[">>
         \o get_level_name(level) \o <<"]", " ">> \o message \o <<"\n">>
  ELSE <<"[">> \o get_level_name(level) \o <<"]", " ">> \o message \o <<"\n">>

(***************************************************************************)
(* struct slog                                                             *)
(***************************************************************************)
\* the global instance before idflog_init: static storage, all zero
ZeroStruct ==
  [_print |-> FALSE, _time |-> FALSE, logging_callback |-> NULL,
   set_print |-> NULL, show_time |-> NULL, set_log_callback |-> NULL,
   d |-> NULL, d_format |-> NULL, e |-> NULL, e_format |-> NULL,
   i |-> NULL, i_format |-> NULL, v |-> NULL, v_format |-> NULL,
   w |-> NULL, w_format |-> NULL, wtf |-> NULL, wtf_format |-> NULL,
   log |-> NULL, log_format |-> NULL]

\* no object: the instance has not been declared yet
NoStruct == [absent |-> TRUE]

\* what slog_init writes into *slog_instance (it writes every member)
slog_init_members ==
  [_print |-> TRUE, _time |-> TRUE, logging_callback |-> NULL,
   set_print |-> "slog_set_print", show_time |-> "slog_show_time",
   set_log_callback |-> "slog_set_log_callback",
   d |-> "slog_d", d_format |-> "slog_d_format",
   e |-> "slog_e", e_format |-> "slog_e_format",
   i |-> "slog_i", i_format |-> "slog_i_format",
   v |-> "slog_v", v_format |-> "slog_v_format",
   w |-> "slog_w", w_format |-> "slog_w_format",
   wtf |-> "slog_wtf", wtf_format |-> "slog_wtf_format",
   log |-> "slog_log", log_format |-> "slog_log_format"]

\* a faulty variant: the callback member is left as it was
slog_init_struct_keep_callback(s) ==
  [slog_init_members EXCEPT
     !.logging_callback = IF "logging_callback" \in DOMAIN s
                          THEN s.logging_callback ELSE NULL]

\* slog_init as a function of the struct it is applied to
slog_init_struct(s) == slog_init_members

\* the member `method` of instance self points at function fn
Bound(self, method, fn) ==
  /\ self \in DOMAIN inst
  /\ inst[self][method] = fn

(***************************************************************************)
(* A thread's call                                                         *)
(***************************************************************************)
IdleCall ==
  [pc |-> "idle", fn |-> "none", self |-> "none", level |-> 0,
   input |-> <<>>, buffer |-> <<>>, time |-> ULong(0), msg |-> <<>>,
   cbp |-> NULL, events |-> <<>>, before |-> NoStruct]

\* the thread is between two operations
Ready(t) == call[t].pc = "idle"

\* a configuration operation fn on target self has returned
Returned(t, fn, self, before) ==
  [IdleCall EXCEPT !.pc = "done", !.fn = fn, !.self = self,
                   !.before = before]

(***************************************************************************)
(* History of the setter calls (an observer's record, no program state):   *)
(* per configuration and field, the argument of the most recent setter     *)
(* call since the configuration was last initialised, and the callback     *)
(* that the most recent slog_set_log_callback / idflog_set_callback call   *)
(* replaced.  <<>> stands for "no such call".                              *)
(***************************************************************************)
Targets == Instances \cup {Standalone}

NoSetterCall ==
  [_print |-> <<>>, _time |-> <<>>, logging_callback |-> <<>>,
   replaced |-> <<>>]

SetterCalled(self, field, value) ==
  IF ~hist.on THEN hist
  ELSE [hist EXCEPT
          !.of[self] =
             IF field = "logging_callback"
             THEN [@ EXCEPT !.logging_callback = <<value>>,
                            !.replaced = hist.of[self].logging_callback]
             ELSE [@ EXCEPT ![field] = <<value>>]]

InitCalled(self) ==
  IF ~hist.on THEN hist ELSE [hist EXCEPT !.of[self] = NoSetterCall]

TypeOK ==
  /\ DOMAIN inst \subseteq Instances
  /\ print_enabled \in BOOLEAN
  /\ show_time_enabled \in BOOLEAN
  /\ log_callback \in CallbackPtrs
  /\ tv \in 1..Len(Timeline)
  /\ \A t \in Threads :
       call[t].pc \in {"idle", "check", "invoke", "print", "done", "fault"}

\* the program after its static initialisers have run
InitProgram ==
  /\ inst = [s \in {GlobalInstance} |-> ZeroStruct]
  /\ print_enabled = TRUE
  /\ show_time_enabled = TRUE
  /\ log_callback = NULL
  /\ tv = 1
  /\ call = [t \in Threads |-> IdleCall]

Init ==
  /\ InitProgram
  /\ hist = [on |-> FALSE, of |-> [s \in Targets |-> NoSetterCall]]

\* the same program, observed with the history of its setter calls
InitTraced ==
  /\ InitProgram
  /\ hist = [on |-> TRUE, of |-> [s \in Targets |-> NoSetterCall]]

(***************************************************************************)
(* Configuration operations                                                *)
(***************************************************************************)
\* a faulty variant: the flag is stored in the global instance, whatever self
slog_set_print_global(t, self, state) ==
  /\ Ready(t)
  /\ Bound(self, "set_print", "slog_set_print")
  /\ inst' = [inst EXCEPT ![GlobalInstance]._print = state]
  /\ call' = [call EXCEPT ![t] = Returned(t, "slog_set_print", self, NoStruct)]
  /\ hist' = SetterCalled(self, "_print", state)
  /\ UNCHANGED <<print_enabled, show_time_enabled, log_callback, tv>>

slog_set_print(t, self, state) ==
  /\ Ready(t)
  /\ Bound(self, "set_print", "slog_set_print")
  /\ inst' = [inst EXCEPT ![self]._print = state]
  /\ call' = [call EXCEPT ![t] = Returned(t, "slog_set_print", self, NoStruct)]
  /\ hist' = SetterCalled(self, "_print", state)
  /\ UNCHANGED <<print_enabled, show_time_enabled, log_callback, tv>>

slog_show_time(t, self, state) ==
  /\ Ready(t)
  /\ Bound(self, "show_time", "slog_show_time")
  /\ inst' = [inst EXCEPT ![self]._time = state]
  /\ call' = [call EXCEPT ![t] = Returned(t, "slog_show_time", self, NoStruct)]
  /\ hist' = SetterCalled(self, "_time", state)
  /\ UNCHANGED <<print_enabled, show_time_enabled, log_callback, tv>>

\* a faulty variant: a registered callback is kept, a later call is ignored
slog_set_log_callback_once(t, self, callback) ==
  /\ Ready(t)
  /\ Bound(self, "set_log_callback", "slog_set_log_callback")
  /\ inst' = [inst EXCEPT
                ![self].logging_callback =
                   IF @ = NULL THEN callback ELSE @]
  /\ call' = [call EXCEPT
                ![t] = Returned(t, "slog_set_log_callback", self, NoStruct)]
  /\ hist' = SetterCalled(self, "logging_callback", callback)
  /\ UNCHANGED <<print_enabled, show_time_enabled, log_callback, tv>>

slog_set_log_callback(t, self, callback) ==
  /\ Ready(t)
  /\ Bound(self, "set_log_callback", "slog_set_log_callback")
  /\ inst' = [inst EXCEPT ![self].logging_callback = callback]
  /\ call' = [call EXCEPT
                ![t] = Returned(t, "slog_set_log_callback", self, NoStruct)]
  /\ hist' = SetterCalled(self, "logging_callback", callback)
  /\ UNCHANGED <<print_enabled, show_time_enabled, log_callback, tv>>

\* the instances after slog_init(&self); a local instance comes into being
\* with its declaration, which slog_init follows (example_usage.c:84-85)
slog_init_effect(self) ==
  [s \in DOMAIN inst \cup {self} |->
     IF s = self
     THEN slog_init_struct(IF self \in DOMAIN inst THEN inst[self] ELSE NoStruct)
     ELSE inst[s]]

slog_init(t, self) ==
  /\ Ready(t)
  /\ inst' = slog_init_effect(self)
  /\ call' = [call EXCEPT
                ![t] = Returned(t, "slog_init", self,
                                IF self \in DOMAIN inst THEN inst[self]
                                ELSE NoStruct)]
  /\ hist' = InitCalled(self)
  /\ UNCHANGED <<print_enabled, show_time_enabled, log_callback, tv>>

\* slog_init(&slog), then a line through ESP_LOGI, which is ESP-IDF's own
\* logger and none of the two sinks of this component
idflog_init(t) ==
  /\ Ready(t)
  /\ inst' = slog_init_effect(GlobalInstance)
  /\ call' = [call EXCEPT
                ![t] = Returned(t, "idflog_init", GlobalInstance,
                                inst[GlobalInstance])]
  /\ hist' = InitCalled(GlobalInstance)
  /\ UNCHANGED <<print_enabled, show_time_enabled, log_callback, tv>>

idflog_set_print(t, state) ==
  /\ Ready(t)
  /\ print_enabled' = state
  /\ call' = [call EXCEPT
                ![t] = Returned(t, "idflog_set_print", Standalone, NoStruct)]
  /\ hist' = SetterCalled(Standalone, "_print", state)
  /\ UNCHANGED <<inst, show_time_enabled, log_callback, tv>>

idflog_show_time(t, state) ==
  /\ Ready(t)
  /\ show_time_enabled' = state
  /\ call' = [call EXCEPT
                ![t] = Returned(t, "idflog_show_time", Standalone, NoStruct)]
  /\ hist' = SetterCalled(Standalone, "_time", state)
  /\ UNCHANGED <<inst, print_enabled, log_callback, tv>>

\* a faulty variant: the callback is registered with the global instance too
idflog_set_callback_both(t, callback) ==
  /\ Ready(t)
  /\ log_callback' = callback
  /\ inst' = [inst EXCEPT ![GlobalInstance].logging_callback = callback]
  /\ call' = [call EXCEPT
                ![t] = Returned(t, "idflog_set_callback", Standalone, NoStruct)]
  /\ hist' = SetterCalled(Standalone, "logging_callback", callback)
  /\ UNCHANGED <<print_enabled, show_time_enabled, tv>>

idflog_set_callback(t, callback) ==
  /\ Ready(t)
  /\ log_callback' = callback
  /\ call' = [call EXCEPT
                ![t] = Returned(t, "idflog_set_callback", Standalone, NoStruct)]
  /\ hist' = SetterCalled(Standalone, "logging_callback", callback)
  /\ UNCHANGED <<inst, print_enabled, show_time_enabled, tv>>

(***************************************************************************)
(* slog_send_logs, statement by statement                                  *)
(***************************************************************************)
\* lines 263-270: read the time, compose the line under self->_time
slog_send_logs(t, fn, self, level, input, message) ==
  /\ \E now \in tv..Len(Timeline) :
       /\ tv' = now
       /\ call' = [call EXCEPT ![t] =
            [IdleCall EXCEPT
               !.pc = "check", !.fn = fn, !.self = self, !.level = level,
               !.input = input, !.buffer = message,
               !.time = get_millis(Timeline[now]),
               !.msg = slog_render(inst[self]._time,
                                   get_millis(Timeline[now]), level, message)]]
  /\ UNCHANGED <<inst, print_enabled, show_time_enabled, log_callback, hist>>

\* a faulty variant: the test of line 272 inverted
slog_send_logs_check_inverted(t) ==
  /\ call[t].pc = "check"
  /\ call[t].self \in Instances
  /\ call' = [call EXCEPT
                ![t].cbp = inst[call[t].self].logging_callback,
                ![t].pc = IF inst[call[t].self].logging_callback = NULL
                          THEN "invoke" ELSE "print"]
  /\ UNCHANGED <<inst, print_enabled, show_time_enabled, log_callback, tv, hist>>

\* line 272: if (self->logging_callback != NULL)
slog_send_logs_check(t) ==
  /\ call[t].pc = "check"
  /\ call[t].self \in Instances
  /\ call' = [call EXCEPT
                ![t].cbp = inst[call[t].self].logging_callback,
                ![t].pc = IF inst[call[t].self].logging_callback # NULL
                          THEN "invoke" ELSE "print"]
  /\ UNCHANGED <<inst, print_enabled, show_time_enabled, log_callback, tv, hist>>

\* the pointers the call of line 273 can go through: the member is read
\* without synchronisation, so the build may call the value it tested or
\* load the member again
slog_callee(t) == {call[t].cbp, inst[call[t].self].logging_callback}

\* line 273: self->logging_callback(level, time, msg); the callback runs to
\* its return inside this step
slog_send_logs_invoke(t) ==
  /\ call[t].pc = "invoke"
  /\ call[t].self \in Instances
  /\ \E f \in slog_callee(t) :
       call' = [call EXCEPT
                  ![t].events = Append(@, [sink |-> "callback", fn |-> f,
                                           level |-> call[t].level,
                                           timestamp |-> call[t].time,
                                           message |-> call[t].msg]),
                  ![t].pc = IF f = NULL THEN "fault" ELSE "print"]
  /\ UNCHANGED <<inst, print_enabled, show_time_enabled, log_callback, tv, hist>>

\* lines 276-278: if (self->_print) printf("%s", msg);
slog_send_logs_print(t) ==
  /\ call[t].pc = "print"
  /\ call[t].self \in Instances
  /\ call' = [call EXCEPT
                ![t].events = IF inst[call[t].self]._print
                              THEN Append(@, [sink |-> "console",
                                              text |-> call[t].msg])
                              ELSE @,
                ![t].pc = "done"]
  /\ UNCHANGED <<inst, print_enabled, show_time_enabled, log_callback, tv, hist>>

(***************************************************************************)
(* send_logs, statement by statement                                       *)
(***************************************************************************)
\* line 583: read the time
send_logs(t, fn, level, input, message) ==
  /\ \E now \in tv..Len(Timeline) :
       /\ tv' = now
       /\ call' = [call EXCEPT ![t] =
            [IdleCall EXCEPT
               !.pc = "check", !.fn = fn, !.self = Standalone,
               !.level = level, !.input = input, !.buffer = message,
               !.time = get_timestamp_ms(Timeline[now])]]
  /\ UNCHANGED <<inst, print_enabled, show_time_enabled, log_callback, hist>>

\* line 586: if (log_callback != NULL)
send_logs_check(t) ==
  /\ call[t].pc = "check"
  /\ call[t].self = Standalone
  /\ call' = [call EXCEPT
                ![t].cbp = log_callback,
                ![t].pc = IF log_callback # NULL THEN "invoke" ELSE "print"]
  /\ UNCHANGED <<inst, print_enabled, show_time_enabled, log_callback, tv, hist>>

\* as slog_callee, for the static log_callback
send_logs_callee(t) == {call[t].cbp, log_callback}

\* line 587: log_callback(level, timestamp, message);
send_logs_invoke(t) ==
  /\ call[t].pc = "invoke"
  /\ call[t].self = Standalone
  /\ \E f \in send_logs_callee(t) :
       call' = [call EXCEPT
                  ![t].events = Append(@, [sink |-> "callback", fn |-> f,
                                           level |-> call[t].level,
                                           timestamp |-> call[t].time,
                                           message |-> call[t].buffer]),
                  ![t].pc = IF f = NULL THEN "fault" ELSE "print"]
  /\ UNCHANGED <<inst, print_enabled, show_time_enabled, log_callback, tv, hist>>

\* a faulty variant: print_enabled is not consulted
send_logs_print_always(t) ==
  /\ call[t].pc = "print"
  /\ call[t].self = Standalone
  /\ call' = [call EXCEPT
                ![t].events =
                  Append(@, [sink |-> "console",
                             text |-> send_logs_render(show_time_enabled,
                                        call[t].time, call[t].level,
                                        call[t].buffer)]),
                ![t].pc = "done"]
  /\ UNCHANGED <<inst, print_enabled, show_time_enabled, log_callback, tv, hist>>

\* lines 591-597: the line is composed by printf itself, under
\* show_time_enabled, and only when print_enabled
send_logs_print(t) ==
  /\ call[t].pc = "print"
  /\ call[t].self = Standalone
  /\ call' = [call EXCEPT
                ![t].events =
                  IF print_enabled
                  THEN Append(@, [sink |-> "console",
                                  text |-> send_logs_render(show_time_enabled,
                                             call[t].time, call[t].level,
                                             call[t].buffer)])
                  ELSE @,
                ![t].pc = "done"]
  /\ UNCHANGED <<inst, print_enabled, show_time_enabled, log_callback, tv, hist>>

\* the operation returns to its caller, and its locals end with it
Return(t) ==
  /\ call[t].pc = "done"
  /\ call' = [call EXCEPT ![t] = IdleCall]
  /\ UNCHANGED <<inst, print_enabled, show_time_enabled, log_callback, tv, hist>>

(***************************************************************************)
(* Entry points of the instance surface                                    *)
(***************************************************************************)
slog_d(t, self, msg) ==
  /\ Ready(t)
  /\ Bound(self, "d", "slog_d")
  /\ slog_send_logs(t, "slog_d", self, IDFLOG_DEBUG, msg, msg)

\* format is the expansion of the format string with its arguments
slog_d_format(t, self, format) ==
  /\ Ready(t)
  /\ Bound(self, "d_format", "slog_d_format")
  /\ slog_send_logs(t, "slog_d_format", self, IDFLOG_DEBUG, format,
                    vsnprintf(sizeof_buffer, format))

slog_e(t, self, msg) ==
  /\ Ready(t)
  /\ Bound(self, "e", "slog_e")
  /\ slog_send_logs(t, "slog_e", self, IDFLOG_ERROR, msg, msg)

\* format is the expansion of the format string with its arguments
slog_e_format(t, self, format) ==
  /\ Ready(t)
  /\ Bound(self, "e_format", "slog_e_format")
  /\ slog_send_logs(t, "slog_e_format", self, IDFLOG_ERROR, format,
                    vsnprintf(sizeof_buffer, format))

slog_i(t, self, msg) ==
  /\ Ready(t)
  /\ Bound(self, "i", "slog_i")
  /\ slog_send_logs(t, "slog_i", self, IDFLOG_INFO, msg, msg)

\* format is the expansion of the format string with its arguments
slog_i_format(t, self, format) ==
  /\ Ready(t)
  /\ Bound(self, "i_format", "slog_i_format")
  /\ slog_send_logs(t, "slog_i_format", self, IDFLOG_INFO, format,
                    vsnprintf(sizeof_buffer, format))

slog_v(t, self, msg) ==
  /\ Ready(t)
  /\ Bound(self, "v", "slog_v")
  /\ slog_send_logs(t, "slog_v", self, IDFLOG_VERBOSE, msg, msg)

\* format is the expansion of the format string with its arguments
slog_v_format(t, self, format) ==
  /\ Ready(t)
  /\ Bound(self, "v_format", "slog_v_format")
  /\ slog_send_logs(t, "slog_v_format", self, IDFLOG_VERBOSE, format,
                    vsnprintf(sizeof_buffer, format))

slog_w(t, self, msg) ==
  /\ Ready(t)
  /\ Bound(self, "w", "slog_w")
  /\ slog_send_logs(t, "slog_w", self, IDFLOG_WARNING, msg, msg)

\* format is the expansion of the format string with its arguments
slog_w_format(t, self, format) ==
  /\ Ready(t)
  /\ Bound(self, "w_format", "slog_w_format")
  /\ slog_send_logs(t, "slog_w_format", self, IDFLOG_WARNING, format,
                    vsnprintf(sizeof_buffer, format))

slog_wtf(t, self, msg) ==
  /\ Ready(t)
  /\ Bound(self, "wtf", "slog_wtf")
  /\ slog_send_logs(t, "slog_wtf", self, IDFLOG_WTF, msg, msg)

\* format is the expansion of the format string with its arguments
slog_wtf_format(t, self, format) ==
  /\ Ready(t)
  /\ Bound(self, "wtf_format", "slog_wtf_format")
  /\ slog_send_logs(t, "slog_wtf_format", self, IDFLOG_WTF, format,
                    vsnprintf(sizeof_buffer, format))

slog_log(t, self, level, msg) ==
  /\ Ready(t)
  /\ Bound(self, "log", "slog_log")
  /\ slog_send_logs(t, "slog_log", self, level, msg, msg)

slog_log_format(t, self, level, format) ==
  /\ Ready(t)
  /\ Bound(self, "log_format", "slog_log_format")
  /\ slog_send_logs(t, "slog_log_format", self, level, format,
                    vsnprintf(sizeof_buffer, format))

(***************************************************************************)
(* Entry points of the standalone surface                                  *)
(***************************************************************************)
idflog_debug(t, format) ==
  /\ Ready(t)
  /\ send_logs(t, "idflog_debug", IDFLOG_DEBUG, format,
               vsnprintf(sizeof_buffer, format))

idflog_info(t, format) ==
  /\ Ready(t)
  /\ send_logs(t, "idflog_info", IDFLOG_INFO, format,
               vsnprintf(sizeof_buffer, format))

idflog_error(t, format) ==
  /\ Ready(t)
  /\ send_logs(t, "idflog_error", IDFLOG_ERROR, format,
               vsnprintf(sizeof_buffer, format))

idflog_verbose(t, format) ==
  /\ Ready(t)
  /\ send_logs(t, "idflog_verbose", IDFLOG_VERBOSE, format,
               vsnprintf(sizeof_buffer, format))

idflog_warning(t, format) ==
  /\ Ready(t)
  /\ send_logs(t, "idflog_warning", IDFLOG_WARNING, format,
               vsnprintf(sizeof_buffer, format))

idflog_wtf(t, format) ==
  /\ Ready(t)
  /\ send_logs(t, "idflog_wtf", IDFLOG_WTF, format,
               vsnprintf(sizeof_buffer, format))

idflog_log(t, level, format) ==
  /\ Ready(t)
  /\ send_logs(t, "idflog_log", level, format,
               vsnprintf(sizeof_buffer, format))

(***************************************************************************)
(* Specifications                                                          *)
(***************************************************************************)
\* the steps of the dispatchers
Dispatch(t) ==
  \/ slog_send_logs_check(t)
  \/ slog_send_logs_invoke(t)
  \/ slog_send_logs_print(t)
  \/ send_logs_check(t)
  \/ send_logs_invoke(t)
  \/ send_logs_print(t)
  \/ Return(t)

\* one thread using the global instance and the standalone functions
Next ==
  \E t \in MainThread :
    \/ idflog_init(t)
    \/ slog_init(t, GlobalInstance)
    \/ \E state \in BOOLEAN : slog_set_print(t, GlobalInstance, state)
    \/ \E state \in BOOLEAN : slog_show_time(t, GlobalInstance, state)
    \/ \E cb \in CallbackPtrs : slog_set_log_callback(t, GlobalInstance, cb)
    \/ \E state \in BOOLEAN : idflog_set_print(t, state)
    \/ \E state \in BOOLEAN : idflog_show_time(t, state)
    \/ \E cb \in CallbackPtrs : idflog_set_callback(t, cb)
    \/ \E m \in Messages : slog_d(t, GlobalInstance, m)
    \/ \E m \in Messages : slog_d_format(t, GlobalInstance, m)
    \/ \E m \in Messages : slog_e(t, GlobalInstance, m)
    \/ \E m \in Messages : slog_e_format(t, GlobalInstance, m)
    \/ \E m \in Messages : slog_i(t, GlobalInstance, m)
    \/ \E m \in Messages : slog_i_format(t, GlobalInstance, m)
    \/ \E m \in Messages : slog_v(t, GlobalInstance, m)
    \/ \E m \in Messages : slog_v_format(t, GlobalInstance, m)
    \/ \E m \in Messages : slog_w(t, GlobalInstance, m)
    \/ \E m \in Messages : slog_w_format(t, GlobalInstance, m)
    \/ \E m \in Messages : slog_wtf(t, GlobalInstance, m)
    \/ \E m \in Messages : slog_wtf_format(t, GlobalInstance, m)
    \/ \E m \in Messages, l \in LevelArgs : slog_log(t, GlobalInstance, l, m)
    \/ \E m \in Messages, l \in LevelArgs :
         slog_log_format(t, GlobalInstance, l, m)
    \/ \E m \in Messages : idflog_debug(t, m)
    \/ \E m \in Messages : idflog_info(t, m)
    \/ \E m \in Messages : idflog_error(t, m)
    \/ \E m \in Messages : idflog_verbose(t, m)
    \/ \E m \in Messages : idflog_warning(t, m)
    \/ \E m \in Messages : idflog_wtf(t, m)
    \/ \E m \in Messages, l \in LevelArgs : idflog_log(t, l, m)
    \/ Dispatch(t)

Spec == Init /\ [][Next]_vars

\* two threads sharing the global instance and the static configuration
NextMT ==
  \E t \in Threads :
    \/ idflog_init(t)
    \/ \E cb \in CallbackPtrs : slog_set_log_callback(t, GlobalInstance, cb)
    \/ \E cb \in CallbackPtrs : idflog_set_callback(t, cb)
    \/ \E m \in ShortMessages : slog_i(t, GlobalInstance, m)
    \/ \E m \in ShortMessages : idflog_info(t, m)
    \/ Dispatch(t)

SpecMT == Init /\ [][NextMT]_vars

\* one thread configuring and using the global instance and the standalone
\* functions, with the history of its setter calls
NextSet ==
  \E t \in MainThread :
    \/ idflog_init(t)
    \/ slog_init(t, GlobalInstance)
    \/ \E state \in BOOLEAN : slog_set_print(t, GlobalInstance, state)
    \/ \E state \in BOOLEAN : slog_show_time(t, GlobalInstance, state)
    \/ \E cb \in CallbackPtrs : slog_set_log_callback(t, GlobalInstance, cb)
    \/ \E state \in BOOLEAN : idflog_set_print(t, state)
    \/ \E state \in BOOLEAN : idflog_show_time(t, state)
    \/ \E cb \in CallbackPtrs : idflog_set_callback(t, cb)
    \/ \E m \in ShortMessages : slog_i(t, GlobalInstance, m)
    \/ \E m \in ShortMessages : idflog_info(t, m)
    \/ Dispatch(t)

SpecSet == InitTraced /\ [][NextSet]_vars

\* one thread using the global instance and a logger of its own
NextInst ==
  \E t \in MainThread :
    \/ idflog_init(t)
    \/ \E self \in Instances :
         \/ slog_init(t, self)
         \/ \E state \in BOOLEAN : slog_set_print(t, self, state)
         \/ \E state \in BOOLEAN : slog_show_time(t, self, state)
         \/ \E cb \in CallbackPtrs : slog_set_log_callback(t, self, cb)
         \/ \E m \in ShortMessages : slog_i(t, self, m)
         \/ \E m \in ShortMessages : slog_w_format(t, self, m)
         \/ \E m \in ShortMessages, l \in Levels : slog_log(t, self, l, m)
    \/ \E cb \in CallbackPtrs : idflog_set_callback(t, cb)
    \/ \E m \in ShortMessages : idflog_info(t, m)
    \/ Dispatch(t)

SpecInst == Init /\ [][NextInst]_vars

(***************************************************************************)
(* Vocabulary of the properties                                            *)
(***************************************************************************)
PlainEntries == {"slog_d", "slog_e", "slog_i", "slog_v", "slog_w", "slog_wtf",
                 "slog_log"}
FormatEntries == {"slog_d_format", "slog_e_format", "slog_i_format",
                  "slog_v_format", "slog_w_format", "slog_wtf_format",
                  "slog_log_format"}
InstanceEntries == PlainEntries \cup FormatEntries
StandaloneEntries == {"idflog_debug", "idflog_info", "idflog_error",
                      "idflog_verbose", "idflog_warning", "idflog_wtf",
                      "idflog_log"}
GenericEntries == {"slog_log", "slog_log_format", "idflog_log"}
LogEntries == InstanceEntries \cup StandaloneEntries

\* the level an entry point stands for; a generic entry takes it as argument
EntryLevel(fn, level) ==
  CASE fn \in {"slog_d", "slog_d_format", "idflog_debug"} -> IDFLOG_DEBUG
    [] fn \in {"slog_i", "slog_i_format", "idflog_info"} -> IDFLOG_INFO
    [] fn \in {"slog_e", "slog_e_format", "idflog_error"} -> IDFLOG_ERROR
    [] fn \in {"slog_v", "slog_v_format", "idflog_verbose"} -> IDFLOG_VERBOSE
    [] fn \in {"slog_w", "slog_w_format", "idflog_warning"} -> IDFLOG_WARNING
    [] fn \in {"slog_wtf", "slog_wtf_format", "idflog_wtf"} -> IDFLOG_WTF
    [] OTHER -> level

\* the tag the documentation gives a level
TagText(level) ==
  CASE level = IDFLOG_DEBUG -> <<"D", "E", "B", "U", "G">>
    [] level = IDFLOG_INFO -> <<"I", "N", "F", "O">>
    [] level = IDFLOG_ERROR -> <<"E", "R", "R", "O", "R">>
    [] level = IDFLOG_VERBOSE -> <<"V", "E", "R", "B", "O", "S", "E">>
    [] level = IDFLOG_WARNING -> <<"W", "A", "R", "N", "I", "N", "G">>
    [] level = IDFLOG_WTF -> <<"W", "T", "F">>
    [] OTHER -> <<"U", "N", "K", "N", "O", "W", "N">>

\* "<t> [TAG]: M\n" and "[TAG]: M\n"
InstanceLine(showTime, t, level, M) ==
  (IF showTime THEN FormatLu(t) \o <<" ">> ELSE <<>>)
    \o <<"[">> \o TagText(level) \o <<"]", ":", " ">> \o M \o <<"\n">>

\* "[<t>] [TAG] M\n" and "[TAG] M\n"
StandaloneLine(showTime, t, level, M) ==
  (IF showTime THEN <<"[">> \o FormatLu(t) \o <<"]", " ">> ELSE <<>>)
    \o <<"[">> \o TagText(level) \o <<"]", " ">> \o M \o <<"\n">>

Contains(line, part) ==
  \E k \in 0..(Len(line) - Len(part)) : SubSeq(line, k + 1, k + Len(part)) = part

EndsWith(line, part) ==
  /\ Len(part) <= Len(line)
  /\ SubSeq(line, Len(line) - Len(part) + 1, Len(line)) = part

CallbackEvents(c) == SelectSeq(c.events, LAMBDA ev : ev.sink = "callback")
ConsoleEvents(c) == SelectSeq(c.events, LAMBDA ev : ev.sink = "console")

\* the configuration a call on `self` reads
CfgPrint(self) == IF self = Standalone THEN print_enabled ELSE inst[self]._print
CfgTime(self) == IF self = Standalone THEN show_time_enabled ELSE inst[self]._time
CfgCallback(self) ==
  IF self = Standalone THEN log_callback ELSE inst[self].logging_callback

\* a log call that has run to its end
DoneLog(c) == c.pc = "done" /\ c.fn \in LogEntries

\* the message fits the buffers it passes through
Fits(c) ==
  /\ c.fn \in FormatEntries \cup StandaloneEntries
       => Len(c.input) <= sizeof_buffer - 1
  /\ c.fn \in InstanceEntries
       => Len(InstanceLine(CfgTime(c.self), c.time, c.level, c.input))
            <= sizeof_msg - 1

(***************************************************************************)
(* C1: a log call invokes the callback exactly once if one is registered   *)
(* and never otherwise, and writes to the console exactly once if print is *)
(* enabled and never otherwise, on both surfaces and at every level.       *)
(***************************************************************************)
C1_SinkCounts ==
  \A t \in Threads :
    DoneLog(call[t]) =>
      /\ Len(CallbackEvents(call[t]))
           = (IF CfgCallback(call[t].self) # NULL THEN 1 ELSE 0)
      /\ Len(ConsoleEvents(call[t]))
           = (IF CfgPrint(call[t].self) THEN 1 ELSE 0)
      /\ \A k \in 1..Len(call[t].events) :
           call[t].events[k].sink = "callback"
             => call[t].events[k].fn = CfgCallback(call[t].self)

\* print disabled and a callback set: one callback invocation, no console
C1_Witness ==
  \E t \in Threads :
    /\ DoneLog(call[t])
    /\ ~CfgPrint(call[t].self)
    /\ CfgCallback(call[t].self) # NULL
    /\ Len(call[t].events) = 1
    /\ call[t].events[1].sink = "callback"

(***************************************************************************)
(* C2: on both surfaces the text the callback receives is the rendered     *)
(* line, the same text the console write of the same call shows.           *)
(***************************************************************************)
C2_CallbackTextIsConsoleText ==
  \A t \in Threads :
    DoneLog(call[t]) =>
      \A j, k \in 1..Len(call[t].events) :
        (call[t].events[j].sink = "callback" /\ call[t].events[k].sink = "console")
          => call[t].events[j].message = call[t].events[k].text

(***************************************************************************)
(* C3: idflog_init resets the configuration of the standalone functions to *)
(* print enabled, show-time enabled, no callback.                          *)
(***************************************************************************)
C3_IdflogInitResetsStandalone ==
  \A t \in Threads :
    (call[t].pc = "done" /\ call[t].fn = "idflog_init")
      => (print_enabled /\ show_time_enabled /\ log_callback = NULL)

(***************************************************************************)
(* C4: with a callback registered and print enabled, the console write of  *)
(* a log call never happens before or without the callback invocation of   *)
(* that call.                                                              *)
(***************************************************************************)
C4_CallbackBeforeConsole ==
  \A t \in Threads :
    (call[t].fn \in LogEntries /\ CfgCallback(call[t].self) # NULL)
      => \A k \in 1..Len(call[t].events) :
           call[t].events[k].sink = "console"
             => \E j \in 1..(k - 1) : call[t].events[j].sink = "callback"

\* both sinks active: the callback, then the console
C4_Witness ==
  \E t \in Threads :
    /\ DoneLog(call[t])
    /\ CfgCallback(call[t].self) # NULL
    /\ CfgPrint(call[t].self)
    /\ Len(call[t].events) = 2
    /\ call[t].events[1].sink = "callback"
    /\ call[t].events[2].sink = "console"

(***************************************************************************)
(* C5 as stated: for every level and every message of any length passed to *)
(* an instance entry, the line rendered with show-time on contains the tag *)
(* of the level and ends with the message and one line terminator.         *)
(***************************************************************************)
C5_LineEndsWithMessage ==
  \A t \in Threads :
    (call[t].fn \in InstanceEntries /\ CfgTime(call[t].self))
      => /\ Contains(call[t].msg, <<"[">> \o TagText(call[t].level) \o <<"]">>)
         /\ EndsWith(call[t].msg, call[t].input \o <<"\n">>)

(***************************************************************************)
(* C5 amended: the same for every message that fits the buffers (at most   *)
(* 255 characters through a *_format entry, and a composed line of at most *)
(* 511 characters).                                                        *)
(***************************************************************************)
C5_LineEndsWithMessageThatFits ==
  \A t \in Threads :
    (call[t].fn \in InstanceEntries /\ CfgTime(call[t].self) /\ Fits(call[t]))
      => /\ Contains(call[t].msg, <<"[">> \o TagText(call[t].level) \o <<"]">>)
         /\ EndsWith(call[t].msg, call[t].input \o <<"\n">>)

\* a long message that still fits, through a plain entry, show-time on
C5_Witness ==
  \E t \in Threads :
    /\ DoneLog(call[t])
    /\ call[t].fn \in PlainEntries
    /\ CfgTime(call[t].self)
    /\ Len(call[t].input) = NearLineLen
    /\ Fits(call[t])
    /\ EndsWith(call[t].msg, <<"m", "z", "\n">>)

(***************************************************************************)
(* C6: under every interleaving of log calls and setter calls of           *)
(* concurrent threads, no log call calls through a callback pointer that   *)
(* is NULL.                                                                *)
(***************************************************************************)
C6_NoCallThroughNull ==
  \A t \in Threads :
    \A k \in 1..Len(call[t].events) :
      call[t].events[k].sink = "callback" => call[t].events[k].fn # NULL

(***************************************************************************)
(* C7: for every entry point and every message that fits the buffers the   *)
(* rendered line is exactly "<t> [TAG]: M\n" / "[TAG]: M\n" on the         *)
(* instance surface and "[<t>] [TAG] M\n" / "[TAG] M\n" on the standalone  *)
(* surface, TAG being the tag of the entry's level; the line is written    *)
(* whenever print is enabled, whatever the level.                          *)
(***************************************************************************)
C7_ExactLine ==
  \A t \in Threads :
    (DoneLog(call[t]) /\ Fits(call[t]) /\ call[t].level \in Levels) =>
      LET c == call[t]
          lvl == EntryLevel(c.fn, c.level)
          line == IF c.fn \in InstanceEntries
                  THEN InstanceLine(CfgTime(c.self), c.time, lvl, c.input)
                  ELSE StandaloneLine(CfgTime(c.self), c.time, lvl, c.input)
      IN /\ c.fn \in InstanceEntries => c.msg = line
         /\ CfgPrint(c.self)
              => ConsoleEvents(c) = <<[sink |-> "console", text |-> line]>>

\* the round trip: show-time off, one character at Info, standalone
C7_Witness ==
  \E t \in Threads :
    /\ DoneLog(call[t])
    /\ call[t].fn = "idflog_info"
    /\ ~show_time_enabled
    /\ ConsoleEvents(call[t])
         = <<[sink |-> "console",
              text |-> <<"[", "I", "N", "F", "O", "]", " ", "z", "\n">>]>>

(***************************************************************************)
(* C8: slog_init leaves an instance, whatever its state before, with       *)
(* _print and _time set, no callback and the full method table, and        *)
(* applying it again changes nothing.                                      *)
(***************************************************************************)
MethodTable ==
  { <<"set_print", "slog_set_print">>, <<"show_time", "slog_show_time">>,
    <<"set_log_callback", "slog_set_log_callback">>,
    <<"d", "slog_d">>, <<"d_format", "slog_d_format">>,
    <<"e", "slog_e">>, <<"e_format", "slog_e_format">>,
    <<"i", "slog_i">>, <<"i_format", "slog_i_format">>,
    <<"v", "slog_v">>, <<"v_format", "slog_v_format">>,
    <<"w", "slog_w">>, <<"w_format", "slog_w_format">>,
    <<"wtf", "slog_wtf">>, <<"wtf_format", "slog_wtf_format">>,
    <<"log", "slog_log">>, <<"log_format", "slog_log_format">> }

C8_SlogInitResets ==
  \A t \in Threads :
    (call[t].pc = "done" /\ call[t].fn \in {"slog_init", "idflog_init"}) =>
      LET s == inst[call[t].self]
      IN /\ s._print = TRUE
         /\ s._time = TRUE
         /\ s.logging_callback = NULL
         /\ \A m \in MethodTable : s[m[1]] = m[2]
         /\ DOMAIN s = {m[1] : m \in MethodTable}
                         \cup {"_print", "_time", "logging_callback"}
         /\ slog_init_struct(s) = s

\* slog_init on an initialised instance with print off and a callback set
C8_Witness ==
  \E t \in Threads :
    /\ call[t].pc = "done"
    /\ call[t].fn = "slog_init"
    /\ "_print" \in DOMAIN call[t].before
    /\ call[t].before.d = "slog_d"
    /\ ~call[t].before._print
    /\ ~call[t].before._time
    /\ call[t].before.logging_callback # NULL

(***************************************************************************)
(* C9: through every formatted entry the message body handed to the        *)
(* dispatcher has length min(n, 255) and stays inside the 256-unit buffer; *)
(* the line of every instance call has at most 511 characters and stays    *)
(* inside the 512-unit buffer; no call ends in an error.                   *)
(***************************************************************************)
C9_BoundedBuffers ==
  \A t \in Threads :
    call[t].fn \in LogEntries =>
      /\ call[t].fn \in FormatEntries \cup StandaloneEntries
           => /\ Len(call[t].buffer)
                   = Min(Len(call[t].input), sizeof_buffer - 1)
              /\ Len(call[t].buffer) + 1 <= sizeof_buffer
      /\ call[t].fn \in InstanceEntries
           => /\ Len(call[t].msg) <= sizeof_msg - 1
              /\ Len(call[t].msg) + 1 <= sizeof_msg
      /\ call[t].pc # "fault"

\* an expansion longer than the body buffer, cut to 255 characters
C9_Witness ==
  \E t \in Threads :
    /\ DoneLog(call[t])
    /\ call[t].fn = "slog_wtf_format"
    /\ Len(call[t].input) = LongLen
    /\ Len(call[t].buffer) = sizeof_buffer - 1
    /\ Len(call[t].events) = 2

(***************************************************************************)
(* C10: a level outside the six enumerated ones passed to a generic entry  *)
(* is tolerated: the call completes and reaches the sinks like any other,  *)
(* the tag is "[UNKNOWN]" (instance) or "UNKNOWN" (standalone), and the    *)
(* callback receives the level unchanged.                                  *)
(***************************************************************************)
Unknown == <<"U", "N", "K", "N", "O", "W", "N">>

C10_UnknownLevel ==
  \A t \in Threads :
    (call[t].fn \in GenericEntries /\ call[t].level \notin Levels) =>
      LET c == call[t]
      IN /\ c.pc # "fault"
         /\ c.fn \in InstanceEntries
              => Contains(c.msg, <<"[">> \o Unknown \o <<"]", ":", " ">>)
         /\ c.pc = "done" =>
              /\ Len(CallbackEvents(c))
                   = (IF CfgCallback(c.self) # NULL THEN 1 ELSE 0)
              /\ Len(ConsoleEvents(c)) = (IF CfgPrint(c.self) THEN 1 ELSE 0)
              /\ \A k \in 1..Len(c.events) :
                   /\ c.events[k].sink = "callback"
                        => c.events[k].level = c.level
                   /\ (c.events[k].sink = "console" /\ c.fn = "idflog_log")
                        => SubSeq(c.events[k].text,
                                  Len(c.events[k].text) - Len(c.buffer)
                                    - Len(Unknown) - 3,
                                  Len(c.events[k].text) - Len(c.buffer) - 1)
                             = <<"[">> \o Unknown \o <<"]", " ">>

\* idflog_log with the level after IDFLOG_WTF, both sinks active
C10_Witness ==
  \E t \in Threads :
    /\ DoneLog(call[t])
    /\ call[t].fn = "idflog_log"
    /\ call[t].level = IDFLOG_WTF + 1
    /\ Len(call[t].events) = 2
    /\ call[t].events[1].level = IDFLOG_WTF + 1
    /\ Contains(call[t].events[2].text, Unknown)

(***************************************************************************)
(* C11: every log call uses, for each field of its configuration, the      *)
(* argument of the most recent setter call on that configuration: it       *)
(* writes to the console iff the last set_print said so, composes the line *)
(* with a timestamp iff the last show_time said so, and invokes exactly    *)
(* the callback of the last set_log_callback, once, and none after NULL;   *)
(* a callback that was replaced is not invoked.                            *)
(***************************************************************************)
LastSet(self) == hist.of[self]

C11_LastSetterWins ==
  \A t \in Threads :
    LET c == call[t]
        h == LastSet(c.self)
    IN DoneLog(c) =>
         /\ h._print # <<>> => ((ConsoleEvents(c) # <<>>) <=> h._print[1])
         /\ (h._time # <<>> /\ c.self \in Instances)
              => c.msg = InstanceLine(h._time[1], c.time, c.level, c.input)
         /\ (h._time # <<>> /\ c.self = Standalone)
              => \A k \in 1..Len(ConsoleEvents(c)) :
                   ConsoleEvents(c)[k].text
                     = StandaloneLine(h._time[1], c.time, c.level, c.input)
         /\ h.logging_callback # <<>>
              => /\ Len(CallbackEvents(c))
                     = (IF h.logging_callback[1] = NULL THEN 0 ELSE 1)
                 /\ \A k \in 1..Len(CallbackEvents(c)) :
                      CallbackEvents(c)[k].fn = h.logging_callback[1]

\* a log call through the instance after set_log_callback(cb1) and then
\* set_log_callback(cb2), with set_print and show_time called as well
C11_Witness ==
  \E t \in Threads :
    LET c == call[t]
        h == LastSet(c.self)
    IN /\ DoneLog(c)
       /\ c.self = GlobalInstance
       /\ h.replaced = <<"custom_log_callback">>
       /\ h.logging_callback = <<"other_callback">>
       /\ h._print = <<TRUE>>
       /\ h._time = <<FALSE>>
       /\ Len(c.events) = 2
       /\ c.events[1].fn = "other_callback"

(***************************************************************************)
(* C12: two instances share no state: a step of slog_init, of a setter or  *)
(* of a log call on one instance leaves the _print, _time and              *)
(* logging_callback of every other instance as they were, and a log call   *)
(* on an instance is gated and rendered by that instance's own members,    *)
(* whatever the other instance holds.                                      *)
(***************************************************************************)
Config(s) ==
  [_print |-> s._print, _time |-> s._time,
   logging_callback |-> s.logging_callback]

\* the instance a step of thread t operates on
OperatesOn(t, A) == call'[t] # call[t] /\ call'[t].self = A

OwnConfigOnly(c) ==
  /\ (ConsoleEvents(c) # <<>>) <=> inst[c.self]._print
  /\ (CallbackEvents(c) # <<>>) <=> inst[c.self].logging_callback # NULL
  /\ \A k \in 1..Len(c.events) :
       /\ c.events[k].sink = "callback"
            => /\ c.events[k].fn = inst[c.self].logging_callback
               /\ c.events[k].message = c.msg
       /\ c.events[k].sink = "console" => c.events[k].text = c.msg
  /\ c.msg = InstanceLine(inst[c.self]._time, c.time, c.level, c.input)

C12_InstancesShareNoState ==
  /\ [](\A t \in Threads :
         (DoneLog(call[t]) /\ call[t].self \in Instances)
           => OwnConfigOnly(call[t]))
  /\ [][\A t \in Threads : \A A, B \in Instances :
          (A # B /\ B \in DOMAIN inst /\ OperatesOn(t, A))
            => (B \in DOMAIN inst' /\ Config(inst'[B]) = Config(inst[B]))]_vars

\* a log call on the local logger while the global instance holds the
\* opposite flags and another callback
C12_Witness ==
  \E t \in Threads :
    LET c == call[t]
    IN /\ DoneLog(c)
       /\ c.self = "my_logger"
       /\ Config(inst["my_logger"])
            = [_print |-> TRUE, _time |-> FALSE,
               logging_callback |-> "other_callback"]
       /\ Config(inst[GlobalInstance])
            = [_print |-> FALSE, _time |-> TRUE,
               logging_callback |-> "custom_log_callback"]
       /\ Len(c.events) = 2
       /\ c.events[1].fn = "other_callback"

(***************************************************************************)
(* C13: the timestamps of successive calls never decrease while the time   *)
(* of day does not decrease, the 32-bit conversion included: a call that   *)
(* reads the time after another call has read it gets a timestamp that is  *)
(* not smaller.                                                            *)
(***************************************************************************)
C13_TimestampsNeverDecrease ==
  [][\A t, u \in Threads :
       (/\ t # u
        /\ call[t].pc = "idle"
        /\ call'[t].pc = "check"
        /\ call[u].fn \in LogEntries)
         => ULongLE(call[u].time, call'[t].time)]_vars

(***************************************************************************)
(* C14: the standalone configuration and the global instance are disjoint: *)
(* a step of a standalone operation leaves slog's _print, _time and        *)
(* logging_callback as they were, a step of an operation on slog           *)
(* (slog_init and idflog_init included) leaves print_enabled,              *)
(* show_time_enabled and log_callback as they were, and a callback that a  *)
(* log call invokes is one registered through that call's own surface.     *)
(***************************************************************************)
StandaloneConfig ==
  [_print |-> print_enabled, _time |-> show_time_enabled,
   logging_callback |-> log_callback]

InvokesOwnCallbackOnly(c) ==
  \A k \in 1..Len(c.events) :
    (c.events[k].sink = "callback" /\ c.events[k].fn # NULL)
      => LastSet(c.self).logging_callback = <<c.events[k].fn>>

C14_SurfacesAreDisjoint ==
  /\ [](\A t \in Threads : InvokesOwnCallbackOnly(call[t]))
  /\ [][\A t \in Threads :
          /\ OperatesOn(t, Standalone)
               => Config(inst'[GlobalInstance]) = Config(inst[GlobalInstance])
          /\ OperatesOn(t, GlobalInstance)
               => StandaloneConfig' = StandaloneConfig]_vars

\* both surfaces hold a callback of their own and a standalone log call
\* has invoked the standalone one
C14_Witness ==
  \E t \in Threads :
    LET c == call[t]
    IN /\ DoneLog(c)
       /\ c.self = Standalone
       /\ LastSet(GlobalInstance).logging_callback = <<"other_callback">>
       /\ LastSet(Standalone).logging_callback = <<"custom_log_callback">>
       /\ inst[GlobalInstance].logging_callback = "other_callback"
       /\ log_callback = "custom_log_callback"
       /\ Len(CallbackEvents(c)) = 1
       /\ CallbackEvents(c)[1].fn = "custom_log_callback"

====
